---- MODULE Spec2Model ----
(***************************************************************************)
(* QHY camera helper process (qhyprocess.py): the control loop of          *)
(* qhy_process, the command handlers of QHYInterface and the acquisition   *)
(* thread __run_exposure_sequence, interleaved at the granularity of the   *)
(* shared reads and writes they make.                                      *)
(*                                                                         *)
(* Not modelled: the `quiet` argument (it only selects logging), the pixel *)
(* data and timing fields of a frame record, and the numeric value of the  *)
(* clock (whether an interval has elapsed is a nondeterministic choice).   *)
(***************************************************************************)
EXTENDS Integers, Sequences, FiniteSets, TLC

\* ------------------------------------------------------------------ bounds
\* Largest frame count given to start_sequence.
MaxCount == 2
\* Frames after which the driver stops delivering to an unbounded sequence,
\* and after which the controller sends no further start command.
MaxFrames == 1

\* --------------------------------------------------------------- constants
\* A Python integer n is the pair <<n \div 65536, n % 65536>> (TLC's own
\* integers are 32 bits wide and cannot hold 0xFFFFFFFF).
QHYStatus_Success == <<0, 0>>
QHYStatus_Error == <<65535, 65535>>
\* Temperatures are integers in units of 0.1 degree C.
TemperatureMin == -200
TemperatureMax == 300

\* The vendor functions return uint32_t; ctypes reads the result with its
\* default restype, a signed 32 bit int.
CInt(raw) == IF raw[1] >= 32768 THEN <<raw[1] - 65536, raw[2]>> ELSE raw
DriverReturns == {CInt(QHYStatus_Success), CInt(QHYStatus_Error)}

\* Optional values (Python None) are sets of at most one element.
None == {}
Some(x) == {x}

\* The args of a command that has no argument but `quiet`, and the locals of
\* the loop when no command is being handled.
NoArgs == [quiet |-> FALSE]

\* ------------------------------------------------------------ configuration
\* Values of the daemon's configuration file (config.py) and the exposure
\* time __init__ sets.
ConfigGain == 26
ConfigOffset == 140
ConfigSetpoint == Some(-100)
use_gpsbox == TRUE
InitialExposure == 1

\* ------------------------------------------------------------ input domains
\* The arguments the controller sends with its commands and the values the
\* driver reports to a cooler poll.  A specification fixes one such record.
Counts == 0..MaxCount

\* Every setting command repeats the value already in force.
BaseInputs ==
  [gains |-> {ConfigGain}, offsets |-> {ConfigOffset},
   exposures |-> {InitialExposure}, setpoints |-> {ConfigSetpoint},
   temperatures |-> {0}, pwms |-> {0}, uvlos |-> {0}, targets |-> {0}]

\* Gain and offset commands carry new values.
GainInputs ==
  [BaseInputs EXCEPT !.gains = {ConfigGain, 56},
                     !.offsets = {ConfigOffset, 150}]

\* Exposure and temperature commands carry new values: no setpoint, one in
\* range, one out of range.
ExposureInputs ==
  [BaseInputs EXCEPT !.exposures = {InitialExposure, 5},
                     !.setpoints = {None, Some(-100), Some(350)}]

VARIABLES
  cpc,                    \* position of the control loop (qhy_process)
  apc,                    \* position of the acquisition thread
  driver_lock,            \* holder of QHYInterface._driver_lock
  driver,                 \* QHYInterface._driver: "loaded" or "None"
  session_facts,          \* the facts initialize has stored in the session
  stream_frames,          \* _stream_frames
  gain,                   \* _gain
  offset,                 \* _offset
  exposure_time,          \* _exposure_time
  cooler_setpoint,        \* _cooler_setpoint
  cooler_mode,            \* _cooler_mode
  cooler_temperature,     \* _cooler_temperature
  cooler_pwm,             \* _cooler_pwm
  cooler_uvlo,            \* history: UVLO status the last cooler poll read
  cooler_target,          \* history: the driver's closed-loop target then
  cooler_write,           \* history: the driver write of the last cooler poll
  sequence_frame_limit,   \* _sequence_frame_limit
  sequence_frame_count,   \* _sequence_frame_count
  stop_acquisition,       \* _stop_acquisition
  processing_stop_signal, \* _processing_stop_signal.value
  exposure_count,         \* _exposure_count
  exposure_count_reference, \* _exposure_count_reference
  counter_file,           \* contents of config.expcount_path
  processing_queue,       \* records put on _processing_queue
  status,                 \* acquisition thread local: last driver status
  seq_tmp,                \* acquisition thread local: operand of `+= 1`
  command,                \* control loop local: c['command']
  args,                   \* control loop local: c['args']
  temperature_dirty,      \* control loop local
  camd_pipe,              \* responses sent since the last recv
  calls,                  \* driver calls made by the handler and by shutdown
  stopped,                \* history: stop_sequence returned Succeeded
  interrupted,            \* history: the running sequence was interfered with
  live,                   \* history: a live-capture session is begun, not ended
  pushed                  \* history: records put since the last start

vars == <<cpc, apc, driver_lock, driver, session_facts, stream_frames, gain, offset,
          exposure_time, cooler_setpoint, cooler_mode, cooler_temperature,
          cooler_pwm, cooler_uvlo, cooler_target, cooler_write,
          sequence_frame_limit,
          sequence_frame_count, stop_acquisition, processing_stop_signal,
          exposure_count, exposure_count_reference, counter_file,
          processing_queue, status, seq_tmp, command, args,
          temperature_dirty, camd_pipe, calls, stopped, interrupted,
          live, pushed>>

\* Variables of the acquisition thread and of the sequence it runs.
seqvars == <<apc, sequence_frame_limit, sequence_frame_count,
             stop_acquisition, processing_stop_signal, exposure_count,
             exposure_count_reference, counter_file, processing_queue,
             status, seq_tmp, pushed>>
\* Camera settings.
setvars == <<stream_frames, gain, offset, exposure_time, cooler_setpoint>>
\* History variables.
histvars == <<stopped, interrupted, live>>
\* Cooler state.
coolvars == <<cooler_mode, cooler_temperature, cooler_pwm, cooler_uvlo,
              cooler_target, cooler_write>>

\* is_acquiring that takes a thread for dead as soon as its function has
\* run its last statement, while the thread object is still alive.
is_acquiring_early == apc \notin {"none", "dead", "return"}

\* is_acquiring: a thread object exists and is alive.
is_acquiring == apc \notin {"none", "dead"}

Send(r) == camd_pipe' = Append(camd_pipe, r)

\* ------------------------------------------------------------ cooler modes
Abs(x) == IF x < 0 THEN -x ELSE x

\* update_cooler with >= for > at line 185: a sensor exactly 5 degrees from
\* the setpoint is ramped rather than handed to the closed loop.
CoolerModeOf_ramp(setpoint, temperature, pwm, uvlo) ==
  IF uvlo \in {2, 3, 9} THEN "UVLOError"
  ELSE IF setpoint = None
    THEN IF pwm > 0 THEN "Warming" ELSE "Warm"
    ELSE LET sp == CHOOSE t \in setpoint : TRUE
             temp_delta == Abs(temperature - sp)
         IN  IF temp_delta >= 50
               THEN IF temperature > sp THEN "Cooling" ELSE "Warming"
               ELSE IF temp_delta < 5 THEN "Locked" ELSE "Locking"

\* update_cooler, lines 171-198: the mode after a poll that read these
\* values.
CoolerModeOf(setpoint, temperature, pwm, uvlo) ==
  IF uvlo \in {2, 3, 9} THEN "UVLOError"
  ELSE IF setpoint = None
    THEN IF pwm > 0 THEN "Warming" ELSE "Warm"
    ELSE LET sp == CHOOSE t \in setpoint : TRUE
             temp_delta == Abs(temperature - sp)
         IN  IF temp_delta > 50
               THEN IF temperature > sp THEN "Cooling" ELSE "Warming"
               ELSE IF temp_delta < 5 THEN "Locked" ELSE "Locking"

\* ---------------------------------------------------------- construction
\* config.cooler_pwm_step.
ConfigPwmStep == 10

Max(a, b) == IF a > b THEN a ELSE b
Min(a, b) == IF a < b THEN a ELSE b

\* update_cooler without the min(255, ...) of line 189.
CoolerWriteOf_unclamped(setpoint, temperature, pwm, uvlo, target) ==
  IF uvlo \in {2, 3, 9} THEN None
  ELSE IF setpoint = None
    THEN IF pwm > 0
           THEN Some([control |-> "MANUALPWM",
                      value |-> Max(0, pwm - ConfigPwmStep)])
           ELSE None
    ELSE LET sp == CHOOSE t \in setpoint : TRUE
             temp_delta == Abs(temperature - sp)
         IN  IF temp_delta > 50
               THEN Some([control |-> "MANUALPWM",
                          value |-> IF temperature > sp
                                      THEN pwm + ConfigPwmStep
                                      ELSE Max(0, pwm - ConfigPwmStep)])
               ELSE IF Abs(target - sp) > 1
                      THEN Some([control |-> "COOLER", value |-> sp])
                      ELSE None

\* update_cooler, lines 172-206: the SetQHYCCDParam call of a poll that read
\* these values (temperatures in tenths of a degree), if it makes one.
CoolerWriteOf(setpoint, temperature, pwm, uvlo, target) ==
  IF uvlo \in {2, 3, 9} THEN None
  ELSE IF setpoint = None
    THEN IF pwm > 0
           THEN Some([control |-> "MANUALPWM",
                      value |-> Max(0, pwm - ConfigPwmStep)])
           ELSE None
    ELSE LET sp == CHOOSE t \in setpoint : TRUE
             temp_delta == Abs(temperature - sp)
         IN  IF temp_delta > 50
               THEN Some([control |-> "MANUALPWM",
                          value |-> IF temperature > sp
                                      THEN Min(255, pwm + ConfigPwmStep)
                                      ELSE Max(0, pwm - ConfigPwmStep)])
               ELSE IF Abs(target - sp) > 1
                      THEN Some([control |-> "COOLER", value |-> sp])
                      ELSE None

\* A counter file is None when no file can be opened, else Some(data), data
\* being what json.load returns: a record.  A file whose text is no JSON
\* object is a record with neither key (json.load, or the first subscript,
\* raises).
\* Contents the counter file can have when the process starts.
CounterFiles ==
  {None, Some([exposure_count |-> 5, exposure_reference |-> "2024-01-01"])}

\* The reference __init__ gives a counter it starts afresh (line 137: the
\* date of the day).
Now == "now"

\* Lines 131-134 taking the stored count for that of the last frame: the
\* session goes on from the count after it.
ReadCounter_next(file) ==
  IF file = None THEN [raised |-> TRUE]
  ELSE LET data == CHOOSE d \in file : TRUE
       IN  IF \/ "exposure_count" \notin DOMAIN data
              \/ "exposure_reference" \notin DOMAIN data
             THEN [raised |-> TRUE]
             ELSE [raised |-> FALSE,
                   exposure_count |-> data.exposure_count + 1,
                   exposure_count_reference |-> data.exposure_reference]

\* Lines 131-134, the body of the try statement: open, json.load and the two
\* subscripts; raised tells whether one of them raised.
ReadCounter(file) ==
  IF file = None THEN [raised |-> TRUE]
  ELSE LET data == CHOOSE d \in file : TRUE
       IN  IF \/ "exposure_count" \notin DOMAIN data
              \/ "exposure_reference" \notin DOMAIN data
             THEN [raised |-> TRUE]
             ELSE [raised |-> FALSE,
                   exposure_count |-> data.exposure_count,
                   exposure_count_reference |-> data.exposure_reference]

\* Lines 130-134 without the except clause of lines 135-138: what the try
\* body raises leaves __init__.
LoadCounter_nocatch(file) ==
  IF ReadCounter(file).raised
    THEN [raised |-> TRUE, exposure_count |-> 0,
          exposure_count_reference |-> Now]
    ELSE ReadCounter(file)

\* Lines 130-138: the counters __init__ ends with, and whether it raised.
LoadCounter(file) ==
  IF ReadCounter(file).raised
    THEN [raised |-> FALSE, exposure_count |-> 0,
          exposure_count_reference |-> Now]
    ELSE ReadCounter(file)

\* The facts about the camera that initialize stores in the session: SDK
\* version (line 382), firmware version (406), mode name (422), readout size
\* (451-452) and image geometry (501-504).
Facts ==
  {"sdk_version", "firmware_version", "mode_name", "readout", "geometry"}

\* QHYInterface.__init__, lines 80-152, but for _driver and _cooler_mode:
\* the fields of the session.  files are the contents the counter file can
\* have.
Constructed(files) ==
  /\ counter_file \in files
  /\ apc = "none"
  /\ driver_lock = "none"
  /\ stream_frames = TRUE
  /\ gain = ConfigGain
  /\ offset = ConfigOffset
  /\ exposure_time = InitialExposure
  /\ cooler_setpoint = ConfigSetpoint
  /\ cooler_temperature = 0
  /\ cooler_pwm = 0
  /\ cooler_uvlo = 0
  /\ cooler_target = 0
  /\ sequence_frame_limit = 0
  /\ sequence_frame_count = 0
  /\ stop_acquisition = FALSE
  /\ processing_stop_signal = FALSE
  /\ exposure_count = LoadCounter(counter_file).exposure_count
  /\ exposure_count_reference =
       LoadCounter(counter_file).exposure_count_reference
  /\ processing_queue = <<>>
  /\ status = QHYStatus_Success
  /\ seq_tmp = 0
  /\ command = "none"
  /\ args = NoArgs
  /\ temperature_dirty = FALSE
  /\ camd_pipe = <<>>
  /\ calls = <<>>
  /\ stopped = FALSE
  /\ interrupted = FALSE
  /\ live = FALSE
  /\ pushed = 0

\* QHYInterface.__init__ followed by a successful initialize(), reset_uvlo()
\* and the first update_cooler() (qhy_process, lines 713-723): the control
\* loop is about to poll the command pipe for the first time.  The first
\* cooler poll read a warm sensor with the cooler off.
InitWith(files) ==
  /\ Constructed(files)
  /\ cpc = IF LoadCounter(counter_file).raised THEN "crashed" ELSE "poll"
  /\ driver = "loaded"
  /\ session_facts = Facts
  /\ cooler_mode = CoolerModeOf(ConfigSetpoint, 0, 0, 0)
  /\ cooler_write = CoolerWriteOf(ConfigSetpoint, 0, 0, 0, 0)

Init == InitWith(CounterFiles)

\* ------------------------------------------------------- command handlers
\* Each handler is a relation between the state, its arguments, the status
\* the driver returns to it (st) and the value it returns (ret).

set_target_temperature(temperature, ret) ==
  IF temperature # None /\ \E t \in temperature :
                              t < TemperatureMin \/ t > TemperatureMax
    THEN ret = "TemperatureOutsideLimits" /\ UNCHANGED cooler_setpoint
    ELSE cooler_setpoint' = temperature /\ ret = "Succeeded"

\* set_gain without the is_acquiring test of lines 540-541.
set_gain_unguarded(g, st, ret) ==
  /\ gain' = g
  /\ calls' = <<"SetQHYCCDParam(GAIN)">>
  /\ ret = IF st # QHYStatus_Success THEN "Failed" ELSE "Succeeded"

set_gain(g, st, ret) ==
  IF is_acquiring
    THEN ret = "CameraNotIdle" /\ calls' = <<>> /\ UNCHANGED gain
    ELSE /\ gain' = g
         /\ calls' = <<"SetQHYCCDParam(GAIN)">>
         /\ ret = IF st # QHYStatus_Success THEN "Failed" ELSE "Succeeded"

\* set_offset without the is_acquiring test of lines 556-557.
set_offset_unguarded(o, st, ret) ==
  /\ offset' = o
  /\ calls' = <<"SetQHYCCDParam(OFFSET)">>
  /\ ret = IF st # QHYStatus_Success THEN "Failed" ELSE "Succeeded"

set_offset(o, st, ret) ==
  IF is_acquiring
    THEN ret = "CameraNotIdle" /\ calls' = <<>> /\ UNCHANGED offset
    ELSE /\ offset' = o
         /\ calls' = <<"SetQHYCCDParam(OFFSET)">>
         /\ ret = IF st # QHYStatus_Success THEN "Failed" ELSE "Succeeded"

\* set_exposure without the is_acquiring test of lines 572-573.
set_exposure_always(exposure, ret) ==
  exposure_time' = exposure /\ ret = "Succeeded"

set_exposure(exposure, ret) ==
  IF is_acquiring
    THEN ret = "CameraNotIdle" /\ UNCHANGED exposure_time
    ELSE exposure_time' = exposure /\ ret = "Succeeded"

\* The driver calls set_frame_streaming makes, in order, under the lock.
StreamingCalls ==
  <<"SetQHYCCDStreamMode", "InitQHYCCD", "SetQHYCCDResolution",
    "SetQHYCCDBitsMode">>
  \o (IF use_gpsbox THEN <<"SetQHYCCDParam(GPS)">> ELSE <<>>)

\* failed is the number of the call that returns non-success, or 0 when all
\* succeed.  The calls are made with the lock held (line 588: StreamLock
\* takes it, StreamLocked releases it).
set_frame_streaming(stream, failed, ret) ==
  IF is_acquiring
    THEN ret = "CameraNotIdle" /\ calls' = <<>> /\ UNCHANGED stream_frames
    ELSE IF stream_frames = stream
      THEN ret = "Succeeded" /\ calls' = <<>> /\ UNCHANGED stream_frames
      ELSE /\ failed \in 0..Len(StreamingCalls)
           /\ calls' = IF failed = 0 THEN StreamingCalls
                       ELSE SubSeq(StreamingCalls, 1, failed)
           /\ stream_frames' = IF failed = 1 THEN stream_frames ELSE stream
           /\ ret = IF failed = 0 THEN "Succeeded" ELSE "Failed"

\* start_sequence without the is_acquiring test of lines 625-626: a start
\* always resets the sequence and starts a thread.
start_sequence_unguarded(count, ret) ==
  /\ sequence_frame_limit' = count
  /\ sequence_frame_count' = 0
  /\ stop_acquisition' = FALSE
  /\ processing_stop_signal' = FALSE
  /\ apc' = "set_exposure"
  /\ status' = QHYStatus_Success
  /\ seq_tmp' = 0
  /\ pushed' = 0
  /\ stopped' = FALSE
  /\ interrupted' = FALSE
  /\ UNCHANGED live
  /\ ret = "Succeeded"
  /\ UNCHANGED <<exposure_count, exposure_count_reference,
                 counter_file, processing_queue>>

start_sequence(count, ret) ==
  IF is_acquiring
    THEN /\ ret = "CameraNotIdle"
         /\ UNCHANGED <<seqvars, histvars>>
    ELSE /\ sequence_frame_limit' = count
         /\ sequence_frame_count' = 0
         /\ stop_acquisition' = FALSE
         /\ processing_stop_signal' = FALSE
         /\ apc' = "set_exposure"
         /\ status' = QHYStatus_Success
         /\ seq_tmp' = 0
         /\ pushed' = 0
         /\ stopped' = FALSE
         /\ interrupted' = FALSE
         /\ UNCHANGED live
         /\ ret = "Succeeded"
         /\ UNCHANGED <<exposure_count, exposure_count_reference,
                        counter_file, processing_queue>>

\* -------------------------------------------------- control loop: commands
CommandStatus ==
  {"Succeeded", "Failed", "CameraNotIdle", "CameraNotAcquiring",
   "TemperatureOutsideLimits"}
CameraStatus == {"Idle", "Acquiring", "Reading", "Aborting"}

\* camd_pipe.poll() returned True and recv() gave a command with this name:
\* a new iteration of the loop has begun.
Recv(name, a) ==
  /\ cpc = "poll"
  /\ command' = name
  /\ args' = a
  /\ temperature_dirty' = (name = "temperature")

\* The handler returned ret, it is sent, and the iteration goes on to the
\* cooler check.
Reply(ret) ==
  /\ camd_pipe' = <<ret>>
  /\ cpc' = "cooler"

CmdTemperature(in) ==
  \E temperature \in in.setpoints, ret \in CommandStatus :
    /\ Recv("temperature", [temperature |-> temperature])
    /\ set_target_temperature(temperature, ret)
    /\ Reply(ret)
    /\ calls' = <<>>
    /\ UNCHANGED <<seqvars, histvars, coolvars, driver_lock, driver, session_facts, stream_frames,
                   gain, offset, exposure_time>>

\* The stream command on the paths of set_frame_streaming that return at
\* line 583 or 586.
CmdStream ==
  \E stream \in BOOLEAN, ret \in CommandStatus :
    /\ Recv("stream", [stream |-> stream])
    /\ is_acquiring \/ stream_frames = stream
    /\ set_frame_streaming(stream, 0, ret)
    /\ Reply(ret)
    /\ UNCHANGED <<seqvars, histvars, coolvars, driver_lock, driver, session_facts, gain, offset,
                   exposure_time, cooler_setpoint>>

\* The stream command on the path that changes the mode: line 588, the lock
\* is taken.
StreamLock ==
  \E stream \in BOOLEAN :
    /\ Recv("stream", [stream |-> stream])
    /\ ~is_acquiring /\ stream_frames # stream
    /\ driver_lock = "none"
    /\ driver_lock' = "ctl"
    /\ cpc' = "stream_locked"
    /\ UNCHANGED <<seqvars, histvars, setvars, coolvars, driver, session_facts, camd_pipe,
                   calls>>

\* Lines 589-620 and the release of the lock; what the handler returned is
\* sent.
StreamLocked ==
  \E failed \in 0..Len(StreamingCalls), ret \in CommandStatus :
    /\ cpc = "stream_locked"
    /\ set_frame_streaming(args.stream, failed, ret)
    /\ Reply(ret)
    /\ driver_lock' = "none"
    /\ UNCHANGED <<seqvars, histvars, coolvars, driver, session_facts, gain, offset,
                   exposure_time, cooler_setpoint, command, args,
                   temperature_dirty>>

CmdGain(in) ==
  \E g \in in.gains, st \in DriverReturns, ret \in CommandStatus :
    /\ Recv("gain", [gain |-> g])
    /\ set_gain(g, st, ret)
    /\ Reply(ret)
    /\ UNCHANGED <<seqvars, histvars, coolvars, driver_lock, driver, session_facts, stream_frames,
                   offset, exposure_time, cooler_setpoint>>

CmdOffset(in) ==
  \E o \in in.offsets, st \in DriverReturns, ret \in CommandStatus :
    /\ Recv("offset", [offset |-> o])
    /\ set_offset(o, st, ret)
    /\ Reply(ret)
    /\ UNCHANGED <<seqvars, histvars, coolvars, driver_lock, driver, session_facts, stream_frames,
                   gain, exposure_time, cooler_setpoint>>

CmdExposure(in) ==
  \E exposure \in in.exposures, ret \in CommandStatus :
    /\ Recv("exposure", [exposure |-> exposure])
    /\ set_exposure(exposure, ret)
    /\ Reply(ret)
    /\ calls' = <<>>
    /\ UNCHANGED <<seqvars, histvars, coolvars, driver_lock, driver, session_facts, stream_frames,
                   gain, offset, cooler_setpoint>>

\* The controller sends no start command once MaxFrames records are queued.
CmdStart ==
  \E count \in Counts, ret \in CommandStatus :
    /\ Len(processing_queue) < MaxFrames
    /\ Recv("start", [count |-> count])
    /\ start_sequence(count, ret)
    /\ Reply(ret)
    /\ calls' = <<>>
    /\ UNCHANGED <<setvars, coolvars, driver_lock, driver, session_facts>>

\* stop_sequence, line 652, first operand: is_acquiring.
CmdStop ==
  /\ Recv("stop", NoArgs)
  /\ calls' = <<>>
  /\ IF ~is_acquiring
       THEN Reply("CameraNotAcquiring")
       ELSE cpc' = "stop_flag" /\ camd_pipe' = <<>>
  /\ UNCHANGED <<seqvars, histvars, setvars, coolvars, driver_lock, driver, session_facts>>

\* stop_sequence without the second operand of line 652: a stop request is
\* accepted although one is already pending.
StopCheckFlag_blind ==
  /\ cpc = "stop_flag"
  /\ cpc' = "stop_reset"
  /\ UNCHANGED <<seqvars, histvars, setvars, coolvars, driver_lock, driver, session_facts,
                 command, args, temperature_dirty, camd_pipe, calls>>

\* stop_sequence, line 652, second operand: _stop_acquisition.
StopCheckFlag ==
  /\ cpc = "stop_flag"
  /\ IF stop_acquisition
       THEN Reply("CameraNotAcquiring")
       ELSE cpc' = "stop_reset" /\ UNCHANGED camd_pipe
  /\ UNCHANGED <<seqvars, histvars, setvars, coolvars, driver_lock, driver, session_facts, command, args,
                 temperature_dirty, calls>>

\* stop_sequence, line 658.
StopResetCount ==
  /\ cpc = "stop_reset"
  /\ sequence_frame_count' = 0
  /\ interrupted' = TRUE
  /\ UNCHANGED live
  /\ cpc' = "stop_set"
  /\ UNCHANGED <<apc, sequence_frame_limit, stop_acquisition,
                 processing_stop_signal, exposure_count,
                 exposure_count_reference, counter_file, processing_queue,
                 status, seq_tmp, pushed, stopped, setvars, coolvars, driver_lock,
                 driver, session_facts, command, args, temperature_dirty, camd_pipe, calls>>

\* stop_sequence, lines 659-661.
StopSetFlag ==
  /\ cpc = "stop_set"
  /\ stop_acquisition' = TRUE
  /\ stopped' = TRUE
  /\ Reply("Succeeded")
  /\ UNCHANGED <<apc, sequence_frame_limit, sequence_frame_count,
                 processing_stop_signal, exposure_count,
                 exposure_count_reference, counter_file, processing_queue,
                 status, seq_tmp, pushed, interrupted, live, setvars, coolvars,
                 driver_lock,
                 driver, session_facts, command, args, temperature_dirty, calls>>

\* report_status, line 670: is_acquiring.
CmdStatus ==
  /\ Recv("status", NoArgs)
  /\ calls' = <<>>
  /\ IF ~is_acquiring
       THEN Reply("Idle")
       ELSE cpc' = "status_flag" /\ camd_pipe' = <<>>
  /\ UNCHANGED <<seqvars, histvars, setvars, coolvars, driver_lock, driver, session_facts>>

\* report_status, lines 671-678: _stop_acquisition, then the clock.
StatusCheckFlag ==
  /\ cpc = "status_flag"
  /\ \E state \in CameraStatus :
       /\ IF stop_acquisition
            THEN state = "Aborting"
            ELSE state \in {"Acquiring", "Reading"}
       /\ Reply(state)
  /\ UNCHANGED <<seqvars, histvars, setvars, coolvars, driver_lock, driver, session_facts, command, args,
                 temperature_dirty, calls>>

\* `break`: nothing is sent.
CmdShutdown ==
  /\ Recv("shutdown", NoArgs)
  /\ cpc' = "close"
  /\ camd_pipe' = <<>>
  /\ calls' = <<>>
  /\ UNCHANGED <<seqvars, histvars, setvars, coolvars, driver_lock, driver, session_facts>>

CmdUnknown ==
  /\ Recv("bogus", NoArgs)
  /\ Reply("Failed")
  /\ calls' = <<>>
  /\ UNCHANGED <<seqvars, histvars, setvars, coolvars, driver_lock, driver, session_facts>>

\* An exception while a command is decoded or its handler starts (a missing
\* key of c or args, an argument of the wrong type): the bare except sends
\* Failed and the loop is left.
CmdFault ==
  /\ Recv("malformed", NoArgs)
  /\ camd_pipe' = <<"Failed">>
  /\ cpc' = "close"
  /\ calls' = <<>>
  /\ UNCHANGED <<seqvars, histvars, setvars, coolvars, driver_lock, driver, session_facts>>

\* camd_pipe.poll(timeout=1) returned False.
PollTimeout ==
  /\ cpc = "poll"
  /\ cpc' = "cooler"
  /\ UNCHANGED <<seqvars, histvars, setvars, coolvars, driver_lock, driver, session_facts,
                 command, args, temperature_dirty, camd_pipe, calls>>

\* ------------------------------------------------------------ cooler poll
\* The iteration of the loop is over: the peer has taken what was sent, and
\* the locals are those of line 728.
IterationEnd ==
  /\ command' = "none"
  /\ args' = NoArgs
  /\ temperature_dirty' = FALSE
  /\ camd_pipe' = <<>>
  /\ calls' = <<>>

\* Line 758: the cooler is polled when the setpoint command was handled in
\* this iteration or cooler_update_delay has elapsed; otherwise the loop
\* goes back to poll the pipe.
CoolerSkip ==
  /\ cpc = "cooler"
  /\ ~temperature_dirty
  /\ cpc' = "poll"
  /\ IterationEnd
  /\ UNCHANGED <<seqvars, histvars, setvars, coolvars, driver_lock, driver, session_facts>>

\* update_cooler without the `with self._driver_lock` of line 166.
CoolerLock_free ==
  /\ cpc = "cooler"
  /\ cpc' = "cooler_locked"
  /\ IterationEnd
  /\ UNCHANGED <<seqvars, histvars, setvars, coolvars, driver, session_facts, driver_lock>>

\* update_cooler, line 166: the lock is taken.  The locals of the iteration
\* are not read again.
CoolerLock ==
  /\ cpc = "cooler"
  /\ driver_lock = "none"
  /\ driver_lock' = "ctl"
  /\ cpc' = "cooler_locked"
  /\ IterationEnd
  /\ UNCHANGED <<seqvars, histvars, setvars, coolvars, driver, session_facts>>

\* update_cooler, lines 167-206, and the release of the lock.  A driver
\* write that fails is only printed.
update_cooler(temperature, pwm, uvlo, target) ==
  /\ cooler_temperature' = temperature
  /\ cooler_pwm' = pwm
  /\ cooler_uvlo' = uvlo
  /\ cooler_target' = target
  /\ cooler_write' = CoolerWriteOf(cooler_setpoint, temperature, pwm, uvlo,
                                   target)
  /\ cooler_mode' = CoolerModeOf(cooler_setpoint, temperature, pwm, uvlo)
  /\ driver_lock' = "none"

UpdateCooler(in) ==
  \E temperature \in in.temperatures, pwm \in in.pwms,
     uvlo \in in.uvlos, target \in in.targets :
    /\ cpc = "cooler_locked"
    /\ update_cooler(temperature, pwm, uvlo, target)
    /\ cpc' = "poll"
    /\ UNCHANGED <<seqvars, histvars, setvars, driver, session_facts, command, args,
                   temperature_dirty, camd_pipe, calls>>

\* An exception inside update_cooler (int() of a NaN status, a driver call
\* that raises): the with statement releases the lock, the bare except of
\* qhy_process sends Failed and the loop is left.
CoolerFault ==
  /\ cpc = "cooler_locked"
  /\ driver_lock' = "none"
  /\ Send("Failed")
  /\ cpc' = "close"
  /\ UNCHANGED <<seqvars, histvars, setvars, coolvars, driver, session_facts, command, args,
                 temperature_dirty, calls>>

\* ----------------------------------------------------------------- shutdown
\* qhy_process without line 766: after a fault the pipe is closed and the
\* function returns with the camera left as it is.
ClosePipe_return ==
  /\ cpc = "close"
  /\ cpc' = IF command = "shutdown" THEN "shutdown" ELSE "done"
  /\ IterationEnd
  /\ UNCHANGED <<seqvars, histvars, setvars, coolvars, driver_lock, driver, session_facts>>

\* Line 765, camd_pipe.close(): the loop is over and its locals are gone.
ClosePipe ==
  /\ cpc = "close"
  /\ cpc' = "shutdown"
  /\ IterationEnd
  /\ UNCHANGED <<seqvars, histvars, setvars, coolvars, driver_lock, driver, session_facts>>

\* shutdown(), line 696: with no thread object the
\* cancel, the flag and the join are skipped.
ShutdownNoThread ==
  /\ cpc = "shutdown"
  /\ apc = "none"
  /\ cpc' = "sd_close"
  /\ UNCHANGED <<seqvars, histvars, setvars, coolvars, driver_lock, driver, session_facts,
                 command, args, temperature_dirty, camd_pipe, calls>>

\* Line 697: a thread object exists; the lock is taken for the cancel.
ShutdownLockCancel ==
  /\ cpc = "shutdown"
  /\ apc # "none"
  /\ driver_lock = "none"
  /\ driver_lock' = "ctl"
  /\ cpc' = "sd_cancel"
  /\ UNCHANGED <<seqvars, histvars, setvars, coolvars, driver, session_facts, command, args,
                 temperature_dirty, camd_pipe, calls>>

\* shutdown with the flag and the join inside the `with` block of line 697:
\* the lock is kept after the cancel.
ShutdownCancel_hold ==
  /\ cpc = "sd_cancel"
  /\ calls' = Append(calls, "CancelQHYCCDExposingAndReadout")
  /\ cpc' = "sd_flag"
  /\ UNCHANGED <<seqvars, histvars, setvars, coolvars, driver, session_facts, driver_lock,
                 command, args, temperature_dirty, camd_pipe>>

\* Line 698.
ShutdownCancel ==
  /\ cpc = "sd_cancel"
  /\ calls' = Append(calls, "CancelQHYCCDExposingAndReadout")
  /\ driver_lock' = "none"
  /\ cpc' = "sd_flag"
  /\ UNCHANGED <<seqvars, histvars, setvars, coolvars, driver, session_facts, command, args,
                 temperature_dirty, camd_pipe>>

\* Line 700.
ShutdownSetFlag ==
  /\ cpc = "sd_flag"
  /\ stop_acquisition' = TRUE
  /\ interrupted' = TRUE
  /\ UNCHANGED live
  /\ cpc' = "sd_join"
  /\ UNCHANGED <<apc, sequence_frame_limit, sequence_frame_count,
                 processing_stop_signal, exposure_count,
                 exposure_count_reference, counter_file, processing_queue,
                 status, seq_tmp, pushed, stopped, setvars, coolvars,
                 driver_lock, driver, session_facts, command, args, temperature_dirty, camd_pipe,
                 calls>>

\* shutdown without the join of line 701.
ShutdownJoin_nowait ==
  /\ cpc = "sd_join"
  /\ cpc' = "sd_close"
  /\ UNCHANGED <<seqvars, histvars, setvars, coolvars, driver_lock, driver, session_facts,
                 command, args, temperature_dirty, camd_pipe, calls>>

\* Line 701: join() returns once the thread is no longer alive.
ShutdownJoin ==
  /\ cpc = "sd_join"
  /\ apc = "dead"
  /\ cpc' = "sd_close"
  /\ UNCHANGED <<seqvars, histvars, setvars, coolvars, driver_lock, driver, session_facts,
                 command, args, temperature_dirty, camd_pipe, calls>>

\* Line 703.
ShutdownLockClose ==
  /\ cpc = "sd_close"
  /\ driver_lock = "none"
  /\ driver_lock' = "ctl"
  /\ cpc' = "sd_closing"
  /\ UNCHANGED <<seqvars, histvars, setvars, coolvars, driver, session_facts, command, args,
                 temperature_dirty, camd_pipe, calls>>

\* Lines 705-709.
ShutdownClose ==
  /\ cpc = "sd_closing"
  /\ calls' = Append(calls, "CloseQHYCCD")
  /\ driver' = "None"
  /\ driver_lock' = "none"
  /\ cpc' = "done"
  /\ UNCHANGED <<seqvars, histvars, setvars, coolvars, session_facts,
                 command, args,
                 temperature_dirty, camd_pipe>>

\* -------------------------------------------------------- acquisition thread
\* Positions at which __run_exposure_sequence enters `with self._driver_lock`.
LockedSteps ==
  {"set_exposure", "begin_live", "exposure_info", "shutter_offset",
   "trigger", "live_frame", "single_frame", "end_live"}

\* What the control thread and the settings keep while the thread steps.
ctlvars == <<cpc, driver, session_facts, command, args, temperature_dirty, camd_pipe, calls,
             stopped>>

stop_observed == stop_acquisition \/ processing_stop_signal

\* The thread takes the lock for the call at its position.
AcqLock ==
  /\ apc \in LockedSteps
  /\ driver_lock = "none"
  /\ driver_lock' = "acq"
  /\ UNCHANGED <<seqvars, histvars, setvars, coolvars, ctlvars>>

\* Frame of every step that changes only the thread's position, its status
\* local, the lock and the `interrupted` history.
AcqStep(from, to, st, locked, failure) ==
  /\ apc = from
  /\ driver_lock = IF locked THEN "acq" ELSE driver_lock
  /\ driver_lock' = IF locked THEN "none" ELSE driver_lock
  /\ apc' = to
  /\ status' = st
  /\ interrupted' = (interrupted \/ failure)
  /\ live' = CASE from = "begin_live" -> (st = QHYStatus_Success)
               [] from = "end_live" -> FALSE
               [] OTHER -> live
  /\ UNCHANGED <<sequence_frame_limit, sequence_frame_count,
                 stop_acquisition, processing_stop_signal, exposure_count,
                 exposure_count_reference, counter_file, processing_queue,
                 seq_tmp, pushed, setvars, coolvars, ctlvars>>

\* Lines 213-219 with the failure leaving the function outside the try
\* statement: the finally block is not run.
SetExposure_nofinally ==
  \E st \in DriverReturns :
    AcqStep("set_exposure",
            IF st # QHYStatus_Success THEN "return"
            ELSE IF stream_frames THEN "begin_live" ELSE "exposure_info",
            st, TRUE, st # QHYStatus_Success)

\* Lines 213-221: SetQHYCCDParam(EXPOSURE); non-success returns (to the
\* finally block).
SetExposure ==
  \E st \in DriverReturns :
    AcqStep("set_exposure",
            IF st # QHYStatus_Success THEN "finally"
            ELSE IF stream_frames THEN "begin_live" ELSE "exposure_info",
            st, TRUE, st # QHYStatus_Success)

\* Lines 222-227: BeginQHYCCDLive.
BeginLive ==
  \E st \in DriverReturns :
    AcqStep("begin_live",
            IF st # QHYStatus_Success THEN "finally" ELSE "exposure_info",
            st, TRUE, st # QHYStatus_Success)

\* Lines 237-245: GetQHYCCDPreciseExposureInfo, result ignored.
ExposureInfo ==
  AcqStep("exposure_info", "shutter_offset", status, TRUE, FALSE)

\* Lines 249-250: GetQHYCCDRollingShutterEndOffset, result ignored.
ShutterOffset ==
  AcqStep("shutter_offset", "loop", status, TRUE, FALSE)

\* Lines 252-254: the while condition, then the branch on the mode.
\* Line 272 sets status to Error before the live frame is polled for.
LoopTest ==
  AcqStep("loop",
          IF stop_observed THEN "finally"
          ELSE IF stream_frames THEN "live_frame" ELSE "trigger",
          IF ~stop_observed /\ stream_frames THEN QHYStatus_Error ELSE status,
          FALSE, FALSE)

\* Lines 255-260: ExpQHYCCDSingleFrame; break when status == Error.
Trigger ==
  \E st \in DriverReturns :
    AcqStep("trigger",
            IF st = QHYStatus_Error THEN "finally" ELSE "single_frame",
            st, TRUE, st # QHYStatus_Success)

\* Whether the driver has a frame for the running sequence: always for a
\* sequence with a frame limit, up to MaxFrames for an unbounded one.
FrameAvailable == sequence_frame_limit > 0 \/ pushed < MaxFrames

\* Lines 274-276: GetQHYCCDLiveFrame returned success.
LiveFrameReady ==
  /\ FrameAvailable
  /\ AcqStep("live_frame", "live_test", CInt(QHYStatus_Success), TRUE, FALSE)

\* The live poll with the `with self._driver_lock` of line 274 around the
\* whole retry loop: the lock is kept when no frame is ready.
LiveFrameNotReady_hold ==
  /\ driver_lock = "acq"
  /\ AcqStep("live_frame", "live_test", CInt(QHYStatus_Error), FALSE, FALSE)

\* Lines 274-276: GetQHYCCDLiveFrame has no frame yet.
LiveFrameNotReady ==
  AcqStep("live_frame", "live_test", CInt(QHYStatus_Error), TRUE, FALSE)

\* The live poll without the stop test of lines 278-279: the poll is left
\* only when the driver delivers a frame.
LiveTest_nostop ==
  AcqStep("live_test",
          IF status = QHYStatus_Success THEN "stop_test" ELSE "live_frame",
          status, FALSE, FALSE)

\* Lines 278-279 and 273: break on stop, else poll again until success.
LiveTest ==
  AcqStep("live_test",
          IF stop_observed \/ status = QHYStatus_Success
            THEN "stop_test" ELSE "live_frame",
          status, FALSE, FALSE)

\* Lines 281-287: GetQHYCCDSingleFrame; break on non-success.
SingleFrame ==
  \E st \in DriverReturns :
    /\ st = QHYStatus_Success => FrameAvailable
    /\ AcqStep("single_frame",
               IF st # QHYStatus_Success THEN "finally" ELSE "stop_test",
               st, TRUE, st # QHYStatus_Success)

\* Lines 289-290 left out: what was downloaded is always put on the queue.
StopTest_blind ==
  AcqStep("stop_test", "put", status, FALSE, FALSE)

\* Lines 289-290.
StopTest ==
  AcqStep("stop_test", IF stop_observed THEN "finally" ELSE "put",
          status, FALSE, FALSE)

\* The fields of a frame record that the model keeps.
FrameRecord ==
  [exposure_count |-> exposure_count,
   exposure_count_reference |-> exposure_count_reference]

\* The loop with the increment of line 325 ahead of the put of line 294: the
\* record carries the counter after the increment.
PutFrame_preincrement ==
  /\ apc = "put"
  /\ processing_queue' =
       Append(processing_queue,
              [FrameRecord EXCEPT !.exposure_count = exposure_count + 1])
  /\ exposure_count' = exposure_count + 1
  /\ pushed' = pushed + 1
  /\ apc' = "count_load"
  /\ UNCHANGED <<sequence_frame_limit, sequence_frame_count,
                 stop_acquisition, processing_stop_signal,
                 exposure_count_reference, counter_file, status, seq_tmp,
                 interrupted, live, driver_lock, setvars, coolvars,
                 ctlvars>>

\* Lines 292-325: the record is put on the queue and the exposure counter,
\* which only this thread writes, is incremented.
PutFrame ==
  /\ apc = "put"
  /\ processing_queue' = Append(processing_queue, FrameRecord)
  /\ exposure_count' = exposure_count + 1
  /\ pushed' = pushed + 1
  /\ apc' = "count_load"
  /\ UNCHANGED <<sequence_frame_limit, sequence_frame_count,
                 stop_acquisition, processing_stop_signal,
                 exposure_count_reference, counter_file, status, seq_tmp,
                 interrupted, live, driver_lock, setvars, coolvars,
                 ctlvars>>

\* Line 326, `self._sequence_frame_count += 1`: the load.
CountLoad ==
  /\ apc = "count_load"
  /\ seq_tmp' = sequence_frame_count
  /\ apc' = "count_store"
  /\ UNCHANGED <<sequence_frame_limit, sequence_frame_count,
                 stop_acquisition, processing_stop_signal, exposure_count,
                 exposure_count_reference, counter_file, processing_queue,
                 status, pushed, interrupted, live, driver_lock, setvars, coolvars,
                 ctlvars>>

\* Line 326: the store.
CountStore ==
  /\ apc = "count_store"
  /\ sequence_frame_count' = seq_tmp + 1
  /\ seq_tmp' = 0
  /\ apc' = "limit"
  /\ UNCHANGED <<sequence_frame_limit, stop_acquisition,
                 processing_stop_signal, exposure_count,
                 exposure_count_reference, counter_file, processing_queue,
                 status, pushed, interrupted, live, driver_lock, setvars, coolvars,
                 ctlvars>>

\* Line 329 with < for <=: the limit is found one frame late.
limit_reached_late == 0 < sequence_frame_limit
                      /\ sequence_frame_limit < sequence_frame_count

\* Lines 329-330.
limit_reached == 0 < sequence_frame_limit
                 /\ sequence_frame_limit <= sequence_frame_count

\* Lines 329-330 without the `> 0` test: a limit of 0 counts as reached.
LimitTest_zero ==
  /\ apc = "limit"
  /\ stop_acquisition' = IF sequence_frame_limit <= sequence_frame_count
                           THEN TRUE ELSE stop_acquisition
  /\ apc' = "loop"
  /\ UNCHANGED <<sequence_frame_limit, sequence_frame_count,
                 processing_stop_signal, exposure_count,
                 exposure_count_reference, counter_file, processing_queue,
                 status, seq_tmp, pushed, interrupted, live, driver_lock, setvars,
                 coolvars, ctlvars>>

LimitTest ==
  /\ apc = "limit"
  /\ stop_acquisition' = IF limit_reached THEN TRUE ELSE stop_acquisition
  /\ apc' = "loop"
  /\ UNCHANGED <<sequence_frame_limit, sequence_frame_count,
                 processing_stop_signal, exposure_count,
                 exposure_count_reference, counter_file, processing_queue,
                 status, seq_tmp, pushed, interrupted, live, driver_lock, setvars,
                 coolvars, ctlvars>>

\* The finally block without lines 332-335: the live capture is left as it
\* is.
Finally_nolive ==
  AcqStep("finally", "save", status, FALSE, FALSE)

\* Line 332: in single-shot mode the finally block has no driver call.
Finally ==
  AcqStep("finally", IF stream_frames THEN "end_live" ELSE "save",
          status, FALSE, FALSE)

\* Lines 333-335: CancelQHYCCDExposingAndReadout and StopQHYCCDLive.
EndLive ==
  AcqStep("end_live", "save", status, TRUE, FALSE)

\* Lines 338-342: the counter file is rewritten.
SaveCounter ==
  /\ apc = "save"
  /\ counter_file' = Some([exposure_count |-> exposure_count,
                           exposure_reference |-> exposure_count_reference])
  /\ apc' = "clear"
  /\ UNCHANGED <<sequence_frame_limit, sequence_frame_count,
                 stop_acquisition, processing_stop_signal, exposure_count,
                 exposure_count_reference, processing_queue, status, seq_tmp,
                 pushed, interrupted, live, driver_lock, setvars, coolvars,
                 ctlvars>>

\* Line 346: the last statement of the thread's function, whose locals end
\* with it.
ClearStop ==
  /\ apc = "clear"
  /\ stop_acquisition' = FALSE
  /\ status' = QHYStatus_Success
  /\ apc' = "return"
  /\ UNCHANGED <<sequence_frame_limit, sequence_frame_count,
                 processing_stop_signal, exposure_count,
                 exposure_count_reference, counter_file, processing_queue,
                 seq_tmp, pushed, interrupted, live, driver_lock, setvars,
                 coolvars, ctlvars>>

\* The function has returned; the thread stops being alive (is_alive() turns
\* False) when the interpreter has torn it down.  The histories of the
\* sequence end with its thread.
ThreadExit ==
  /\ apc = "return"
  /\ apc' = "dead"
  /\ stopped' = FALSE
  /\ interrupted' = FALSE
  /\ UNCHANGED live
  /\ pushed' = 0
  /\ UNCHANGED <<sequence_frame_limit, sequence_frame_count,
                 stop_acquisition, processing_stop_signal, exposure_count,
                 exposure_count_reference, counter_file, processing_queue,
                 status, seq_tmp, driver_lock, setvars, coolvars, cpc,
                 driver, session_facts, command, args, temperature_dirty, camd_pipe, calls>>

\* -------------------------------------------------------------- environment
\* The frame-processing side sets the shared stop signal.
ExternalStop ==
  /\ ~processing_stop_signal
  /\ cpc # "done"
  /\ processing_stop_signal' = TRUE
  /\ interrupted' = TRUE
  /\ UNCHANGED live
  /\ UNCHANGED <<apc, sequence_frame_limit, sequence_frame_count,
                 stop_acquisition, exposure_count, exposure_count_reference,
                 counter_file, processing_queue, status, seq_tmp, pushed,
                 driver_lock, setvars, coolvars, ctlvars>>

\* ------------------------------------------------------------ specification
Control(in) ==
  \/ CmdTemperature(in) \/ CmdStream \/ StreamLock \/ StreamLocked \/ CmdGain(in) \/ CmdOffset(in)
  \/ CmdExposure(in) \/ CmdStart \/ CmdStop \/ StopCheckFlag
  \/ StopResetCount \/ StopSetFlag \/ CmdStatus \/ StatusCheckFlag
  \/ CmdShutdown \/ CmdUnknown \/ CmdFault \/ PollTimeout \/ CoolerSkip
  \/ CoolerLock \/ UpdateCooler(in) \/ CoolerFault \/ ClosePipe
  \/ ShutdownNoThread \/ ShutdownLockCancel \/ ShutdownCancel
  \/ ShutdownSetFlag \/ ShutdownJoin \/ ShutdownLockClose \/ ShutdownClose

Acquisition ==
  \/ AcqLock \/ SetExposure \/ BeginLive \/ ExposureInfo \/ ShutterOffset
  \/ LoopTest \/ Trigger \/ LiveFrameReady \/ LiveFrameNotReady \/ LiveTest
  \/ SingleFrame \/ StopTest \/ PutFrame \/ CountLoad \/ CountStore
  \/ LimitTest \/ Finally \/ EndLive \/ SaveCounter \/ ClearStop
  \/ ThreadExit

\* The sequencing of the camera under every command; the setting commands
\* repeat the values in force.
Next == Control(BaseInputs) \/ Acquisition \/ ExternalStop
Spec == Init /\ [][Next]_vars

StopSteps == CmdStop \/ StopCheckFlag \/ StopResetCount \/ StopSetFlag
CoolerSteps(in) == CoolerSkip \/ CoolerLock \/ UpdateCooler(in)

\* A controller that starts and stops sequences and changes gain, offset and
\* streaming.
NextGain ==
  \/ CmdGain(GainInputs) \/ CmdOffset(GainInputs) \/ CmdStream \/ StreamLock \/ StreamLocked \/ CmdStart
  \/ StopSteps \/ CoolerSteps(GainInputs) \/ Acquisition
SpecGain == Init /\ [][NextGain]_vars

\* A controller that starts and stops sequences and changes the exposure
\* time, the setpoint and streaming.
NextExposure ==
  \/ CmdExposure(ExposureInputs) \/ CmdTemperature(ExposureInputs)
  \/ CmdStream \/ StreamLock \/ StreamLocked \/ CmdStart \/ StopSteps \/ CoolerSteps(ExposureInputs) \/ Acquisition
SpecExposure == Init /\ [][NextExposure]_vars

\* Largest count of a counter file left by a previous run.
MaxStored == 2

\* Counter files of every kind: missing, not JSON, lacking either key, and
\* as the finally block of a previous run wrote them.
AllCounterFiles ==
  {None,
   Some([invalid |-> TRUE]),
   Some([exposure_count |-> 5]),
   Some([exposure_reference |-> "2024-01-01"])}
  \cup {Some([exposure_count |-> c, exposure_reference |-> "2024-01-01"]) :
          c \in 0..MaxStored}

\* A controller that starts and stops sequences and switches streaming, on
\* a process started with any counter file.
NextCounter ==
  \/ CmdStart \/ StopSteps \/ CmdStream \/ StreamLock \/ StreamLocked \/ CoolerSkip \/ PollTimeout
  \/ Acquisition
SpecCounter == InitWith(AllCounterFiles) /\ [][NextCounter]_vars

\* Setpoints (none, and -10 degrees), sensor temperatures on both sides of
\* the 0.5 and 5 degree thresholds around -10, PWM off, within a step of
\* either end of its range and in between, UVLO status values in and out of
\* {2, 3, 9}, and closed-loop targets at, 0.1 and 0.2 degrees from, and far
\* from the setpoint.
CoolerInputs ==
  [BaseInputs EXCEPT
     !.setpoints = {None, Some(-100)},
     !.temperatures = {-151, -150, -105, -104, -100, -96, -95, -50, -49},
     !.pwms = {0, 5, 128, 250},
     !.uvlos = {0, 1, 2, 3, 9},
     !.targets = {-100, -99, -98, 0}]

\* A controller that changes the setpoint, with the cooler polls.
NextCooler ==
  \/ CmdTemperature(CoolerInputs) \/ CoolerSteps(CoolerInputs)
  \/ PollTimeout
SpecCooler == Init /\ [][NextCooler]_vars

\* ------------------------------------------------------------ initialize
\* Most devices ScanQHYCCD reports.
MaxCameras == 2

\* What GetQHYCCDId gives for a device: no id (non-success), an id other
\* than the configured one, or the configured one.
IdResults == {"unreadable", "other", "match"}

\* The devices an enumeration can find, in index order.
Enumerations ==
  UNION {[1..n -> IdResults] : n \in 0..MaxCameras}

\* The record of a GetQHYCCDId call and its result.
IdCall(r) ==
  CASE r = "unreadable" -> "GetQHYCCDId:unreadable"
    [] r = "other" -> "GetQHYCCDId:other"
    [] r = "match" -> "GetQHYCCDId:match"

RECURSIVE open_device_first(_, _)
\* open_device without the comparison of line 73: the first device whose id
\* can be read is opened.
open_device_first(ids, i) ==
  IF i > Len(ids) THEN <<>>
  ELSE IF ids[i] # "unreadable" THEN <<IdCall(ids[i]), "OpenQHYCCD">>
  ELSE <<IdCall(ids[i])>> \o open_device_first(ids, i + 1)

RECURSIVE open_device(_, _)
\* Lines 66-76: the driver calls of open_device from device i on.  A device
\* whose id cannot be read is skipped; the first that matches is opened.
open_device(ids, i) ==
  IF i > Len(ids) THEN <<>>
  ELSE IF ids[i] = "match" THEN <<IdCall(ids[i]), "OpenQHYCCD">>
  ELSE <<IdCall(ids[i])>> \o open_device(ids, i + 1)

\* The calls of initialize that return a status, before and after
\* open_device (lines 371-387 and 396-499).
BeforeOpen == <<"GetQHYCCDSDKVersion", "InitQHYCCDResource">>

AfterOpen ==
  <<"GetQHYCCDFWVersion", "SetQHYCCDReadMode", "GetQHYCCDReadModeName",
    "SetQHYCCDStreamMode", "InitQHYCCD", "GetQHYCCDChipInfo">>
  \o (IF use_gpsbox THEN <<"SetQHYCCDParam(GPS)">> ELSE <<>>)
  \o <<"SetQHYCCDParam(GAIN)", "SetQHYCCDParam(OFFSET)",
       "SetQHYCCDParam(USBTRAFFIC)", "SetQHYCCDResolution",
       "SetQHYCCDBitsMode", "GetQHYCCDEffectiveArea">>

\* initialize's local handle is not None: OpenQHYCCD was called.
Opened == \E i \in 1..Len(calls) : calls[i] = "OpenQHYCCD"

\* The number of calls made since OpenQHYCCD.
SinceOpen ==
  Len(calls) - (CHOOSE i \in 1..Len(calls) : calls[i] = "OpenQHYCCD")

\* What no step of initialize, of reset_uvlo or of the first cooler poll
\* changes.
initvars ==
  <<apc, sequence_frame_limit, sequence_frame_count, stop_acquisition,
    processing_stop_signal, exposure_count, exposure_count_reference,
    counter_file, processing_queue, seq_tmp, pushed, histvars, setvars,
    command, args, temperature_dirty>>

\* qhy_process, line 713, and __init__: the session is constructed, nothing
\* is initialized.
InitProcess ==
  /\ Constructed(CounterFiles)
  /\ cpc = IF LoadCounter(counter_file).raised THEN "crashed" ELSE "start"
  /\ driver = "None"
  /\ session_facts = {}
  /\ cooler_mode = "Unknown"
  /\ cooler_write = None

\* Line 352.
InitializeLock ==
  /\ cpc = "start"
  /\ driver_lock = "none"
  /\ driver_lock' = "ctl"
  /\ cpc' = "initialize"
  /\ UNCHANGED <<initvars, coolvars, driver, session_facts, status, camd_pipe, calls>>

\* initialize storing what a call read before testing the status the call
\* returned.
StoredBy_unchecked(name, st) ==
  CASE name = "GetQHYCCDSDKVersion" -> {"sdk_version"}
    [] name = "GetQHYCCDFWVersion" -> {"firmware_version"}
    [] name = "GetQHYCCDReadModeName" -> {"mode_name"}
    [] name = "GetQHYCCDChipInfo" -> {"readout"}
    [] name = "GetQHYCCDEffectiveArea" -> {"geometry"}
    [] OTHER -> {}

\* The facts initialize stores when the call `name` returned st: the one read
\* by that call, if it succeeded.
StoredBy(name, st) ==
  IF st # QHYStatus_Success THEN {}
  ELSE CASE name = "GetQHYCCDSDKVersion" -> {"sdk_version"}
         [] name = "GetQHYCCDFWVersion" -> {"firmware_version"}
         [] name = "GetQHYCCDReadModeName" -> {"mode_name"}
         [] name = "GetQHYCCDChipInfo" -> {"readout"}
         [] name = "GetQHYCCDEffectiveArea" -> {"geometry"}
         [] OTHER -> {}

\* `if status != QHYStatus.Success: return CommandStatus.Failed` ignored:
\* initialize goes on to its next call.
InitNext_ignore(st, last) ==
  IF last THEN "init_done" ELSE "initialize"

\* Where initialize is after a call returned st: a status other than
\* success makes it return Failed; after the last call (lines 506-511) it
\* returns Succeeded.
InitNext(st, last) ==
  IF st # QHYStatus_Success THEN "init_failed"
  ELSE IF last THEN "init_done" ELSE "initialize"

\* Lines 371-387.
InitBefore ==
  \E st \in DriverReturns :
    /\ cpc = "initialize"
    /\ Len(calls) < Len(BeforeOpen)
    /\ calls' = Append(calls, BeforeOpen[Len(calls) + 1])
    /\ status' = st
    /\ cpc' = InitNext(st, FALSE)
    /\ session_facts' =
         session_facts \cup StoredBy(BeforeOpen[Len(calls) + 1], st)
    /\ UNCHANGED <<initvars, coolvars, driver, driver_lock, camd_pipe>>

\* Lines 390-393 and open_device: the enumeration, and the open call if a
\* device matches.
OpenDevice ==
  \E ids \in Enumerations :
    /\ cpc = "initialize"
    /\ Len(calls) = Len(BeforeOpen)
    /\ calls' = calls \o <<"ScanQHYCCD">> \o open_device(ids, 1)
    /\ cpc' = IF \E i \in 1..Len(calls') : calls'[i] = "OpenQHYCCD"
                THEN "initialize" ELSE "init_notfound"
    /\ UNCHANGED <<initvars, coolvars, driver, session_facts, driver_lock, status,
                   camd_pipe>>

\* Lines 396-511: the calls on the opened handle; after the last one the
\* driver and the handle are stored in the session.
InitAfter ==
  \E st \in DriverReturns :
    /\ cpc = "initialize"
    /\ Opened
    /\ SinceOpen < Len(AfterOpen)
    /\ calls' = Append(calls, AfterOpen[SinceOpen + 1])
    /\ status' = st
    /\ cpc' = InitNext(st, SinceOpen + 1 = Len(AfterOpen))
    /\ driver' = IF cpc' = "init_done" THEN "loaded" ELSE driver
    /\ session_facts' =
         session_facts \cup StoredBy(AfterOpen[SinceOpen + 1], st)
    /\ UNCHANGED <<initvars, coolvars, driver_lock, camd_pipe>>

\* Lines 512-514: an exception in the try block.
InitFault ==
  /\ cpc = "initialize"
  /\ cpc' = "init_failed"
  /\ UNCHANGED <<initvars, coolvars, driver, session_facts, driver_lock, status,
                 camd_pipe, calls>>

\* Lines 515-525, the finally block, and the release of the lock.
InitFinally ==
  /\ cpc \in {"init_failed", "init_notfound", "init_done"}
  /\ calls' = calls
              \o (IF cpc # "init_done" /\ Opened
                    THEN <<"CloseQHYCCD">> ELSE <<>>)
              \o <<"ReleaseQHYCCDResource">>
  /\ driver_lock' = "none"
  /\ cpc' = CASE cpc = "init_failed" -> "send_failed"
              [] cpc = "init_notfound" -> "send_notfound"
              [] cpc = "init_done" -> "reset_uvlo"
  /\ UNCHANGED <<initvars, coolvars, driver, session_facts, status, camd_pipe>>

\* qhy_process, line 718, and reset_uvlo: the lock is not taken.
ResetUvlo ==
  \E uvlo \in {0, 2} :
    /\ cpc = "reset_uvlo"
    /\ calls' = calls \o <<"GetQHYCCDParam(UVLO_STATUS)">>
                \o (IF uvlo \in {2, 3, 9}
                      THEN <<"QHYCCDResetFlashULVOError">> ELSE <<>>)
    /\ cpc' = "first_cooler"
    /\ UNCHANGED <<initvars, coolvars, driver, session_facts, driver_lock, status,
                   camd_pipe>>

\* qhy_process, line 719, and update_cooler, line 166.
FirstCoolerLock ==
  /\ cpc = "first_cooler"
  /\ driver_lock = "none"
  /\ driver_lock' = "ctl"
  /\ cpc' = "first_cooler_locked"
  /\ UNCHANGED <<initvars, coolvars, driver, session_facts, status, camd_pipe, calls>>

\* The first cooler poll reads a warm sensor with the cooler off.
FirstCooler ==
  /\ cpc = "first_cooler_locked"
  /\ update_cooler(0, 0, 0, 0)
  /\ cpc' = "send_succeeded"
  /\ UNCHANGED <<initvars, driver, session_facts, status, camd_pipe, calls>>

\* Lines 721-723: what initialize returned is sent, and the process function
\* returns unless it is Succeeded.
SendInit ==
  /\ cpc \in {"send_failed", "send_notfound", "send_succeeded"}
  /\ camd_pipe' = CASE cpc = "send_failed" -> <<"Failed">>
                    [] cpc = "send_notfound" -> <<"CameraNotFound">>
                    [] cpc = "send_succeeded" -> <<"Succeeded">>
  /\ cpc' = IF cpc = "send_succeeded" THEN "started" ELSE "returned"
  /\ UNCHANGED <<initvars, coolvars, driver, session_facts, driver_lock, status, calls>>

\* Lines 725-728: the loop is entered.
EnterLoop ==
  /\ cpc = "started"
  /\ cpc' = "poll"
  /\ IterationEnd
  /\ status' = QHYStatus_Success
  /\ UNCHANGED <<apc, sequence_frame_limit, sequence_frame_count,
                 stop_acquisition, processing_stop_signal, exposure_count,
                 exposure_count_reference, counter_file, processing_queue,
                 seq_tmp, pushed, histvars, setvars, coolvars, driver, session_facts,
                 driver_lock>>

NextInit ==
  \/ InitializeLock \/ InitBefore \/ OpenDevice \/ InitAfter \/ InitFault
  \/ InitFinally \/ ResetUvlo \/ FirstCoolerLock \/ FirstCooler \/ SendInit
  \/ EnterLoop
SpecInit == InitProcess /\ [][NextInit]_vars

\* The process function from its first line: initialization, then the
\* control loop with every command, and the acquisition thread.
SpecProcess == InitProcess /\ [][NextInit \/ Next]_vars

\* ------------------------------------------------------------------ fairness
\* Scheduling: the acquisition thread is scheduled while it has a step to
\* take, it gets the driver lock if the lock is free again and again (the
\* control thread releases it between polls), and every driver call made
\* under the lock by the control thread returns.
Scheduling ==
  /\ WF_vars(Acquisition)
  /\ SF_vars(AcqLock)
  /\ WF_vars(UpdateCooler(BaseInputs) \/ CoolerFault \/ ShutdownCancel
             \/ ShutdownClose)

\* A controller that starts and stops sequences, switches streaming and
\* shuts the camera down, with the timed cooler polls and the external stop
\* signal: the steps that the acquisition thread can depend on.
NextSequence ==
  \/ CmdStream \/ StreamLock \/ StreamLocked \/ CmdStart \/ StopSteps \/ CmdShutdown \/ PollTimeout
  \/ CoolerSteps(BaseInputs) \/ CoolerFault \/ ClosePipe
  \/ ShutdownNoThread \/ ShutdownLockCancel \/ ShutdownCancel
  \/ ShutdownSetFlag \/ ShutdownJoin \/ ShutdownLockClose \/ ShutdownClose
  \/ Acquisition \/ ExternalStop

FairSpec == Init /\ [][NextSequence]_vars /\ Scheduling

\* As FairSpec, with a driver that delivers the live frame of a running
\* sequence if it is polled for again and again.
FairSpecFrames == FairSpec /\ SF_vars(LiveFrameReady)

\* The control thread is scheduled while it has a step of shutdown to take
\* that does not wait, it gets the driver lock if the lock is free again
\* and again (the acquisition thread releases it after each driver call),
\* and the driver calls of the stream handler return.
ShutdownScheduling ==
  /\ WF_vars(ClosePipe \/ ShutdownNoThread \/ ShutdownSetFlag \/ ShutdownJoin
             \/ StreamLocked)
  /\ SF_vars(ShutdownLockCancel)
  /\ SF_vars(ShutdownLockClose)

\* A controller that starts and stops sequences, switches streaming and
\* shuts the camera down or sends what makes the control loop raise, with
\* the timed cooler polls.
NextShutdown ==
  \/ CmdStream \/ StreamLock \/ StreamLocked \/ CmdStart \/ StopSteps \/ CmdShutdown \/ CmdFault
  \/ PollTimeout \/ CoolerSteps(BaseInputs) \/ CoolerFault \/ ClosePipe
  \/ ShutdownNoThread \/ ShutdownLockCancel \/ ShutdownCancel
  \/ ShutdownSetFlag \/ ShutdownJoin \/ ShutdownLockClose \/ ShutdownClose
  \/ Acquisition

FairSpecShutdown ==
  Init /\ [][NextShutdown]_vars /\ Scheduling /\ ShutdownScheduling

\* ------------------------------------------------------------- properties
\* The steps of the control loop that receive a command.
Received(name) == cpc = "poll" /\ command' = name

\* The thread's function is past its loop.
Leaving == apc \in {"finally", "end_live", "save", "clear", "return"}

\* C1: a start command received while the acquisition thread is alive is
\* answered CameraNotIdle, and the frame limit, the frame count, the stop
\* flag, the external stop signal and the thread (its position: a new
\* thread would begin at set_exposure) are as they were.
C1_StartWhileAcquiring ==
  [][(Received("start") /\ is_acquiring) =>
        /\ camd_pipe' = <<"CameraNotIdle">>
        /\ UNCHANGED <<sequence_frame_limit, sequence_frame_count,
                       stop_acquisition, processing_stop_signal, apc,
                       processing_queue, exposure_count>>]_vars

C1_Witness ==
  /\ command = "start"
  /\ camd_pipe = <<"CameraNotIdle">>
  /\ is_acquiring
  /\ sequence_frame_limit # args.count

\* C2: a sequence with limit N > 0 that nothing interrupts never has more
\* than N records pushed, has exactly N pushed when its thread leaves the
\* loop, and its thread does leave and exit (or the sequence is interrupted).
C2_ExactlyN ==
  /\ []((is_acquiring /\ sequence_frame_limit > 0 /\ ~interrupted) =>
          /\ pushed <= sequence_frame_limit
          /\ Leaving => pushed = sequence_frame_limit)
  /\ (is_acquiring /\ sequence_frame_limit > 0 /\ ~interrupted)
       ~> (~is_acquiring \/ interrupted)

C2_Witness ==
  /\ apc = "return"
  /\ ~interrupted
  /\ sequence_frame_limit = MaxCount
  /\ pushed = MaxCount
  /\ Len(processing_queue) = MaxCount
  /\ ~stop_acquisition

\* C3: in a sequence with limit 0 no step of the acquisition thread sets the
\* stop flag, and the thread leaves its loop only when the sequence has been
\* interrupted (stop_sequence, shutdown, the external signal, or a failed
\* driver call).
C3_Unbounded ==
  /\ []((sequence_frame_limit = 0 /\ Leaving) => interrupted)
  /\ [][(sequence_frame_limit = 0 /\ is_acquiring /\ apc' # apc) =>
           (stop_acquisition' => stop_acquisition)]_vars

C3_Witness ==
  /\ sequence_frame_limit = 0
  /\ pushed = MaxFrames
  /\ sequence_frame_count = MaxFrames
  /\ apc = "loop"
  /\ ~stop_observed
  /\ ~interrupted

\* C4: stop_sequence answers CameraNotAcquiring, and leaves the frame count
\* and the stop flag alone, when it finds no live thread or finds the flag
\* set; otherwise it resets the frame count to 0, sets the flag and answers
\* Succeeded.
C4_StopSequence ==
  [][/\ Received("stop") =>
          IF ~is_acquiring
            THEN /\ camd_pipe' = <<"CameraNotAcquiring">>
                 /\ cpc' = "cooler"
                 /\ UNCHANGED <<sequence_frame_count, stop_acquisition>>
            ELSE /\ cpc' = "stop_flag"
                 /\ UNCHANGED <<sequence_frame_count, stop_acquisition>>
     /\ (cpc = "stop_flag" /\ cpc' # cpc) =>
          IF stop_acquisition
            THEN /\ camd_pipe' = <<"CameraNotAcquiring">>
                 /\ cpc' = "cooler"
                 /\ UNCHANGED <<sequence_frame_count, stop_acquisition>>
            ELSE /\ cpc' = "stop_reset"
                 /\ UNCHANGED <<sequence_frame_count, stop_acquisition>>
     /\ (cpc = "stop_reset" /\ cpc' # cpc) =>
          sequence_frame_count' = 0 /\ cpc' = "stop_set"
     /\ (cpc = "stop_set" /\ cpc' # cpc) =>
          /\ stop_acquisition'
          /\ camd_pipe' = <<"Succeeded">>
          /\ cpc' = "cooler"
     /\ (command' = "stop" /\ camd_pipe' = <<"Succeeded">>
         /\ camd_pipe # camd_pipe') => cpc = "stop_set"]_vars

C4_Witness ==
  /\ command = "stop"
  /\ camd_pipe = <<"Succeeded">>
  /\ stop_acquisition
  /\ sequence_frame_count = 0
  /\ pushed > 0
  /\ is_acquiring

\* C5: once stop_sequence has answered Succeeded the acquisition thread
\* exits, whether or not the driver delivers a frame, and a start command
\* received when the thread has exited is answered Succeeded and starts a
\* thread.
C5_StopThenExit ==
  /\ (stopped /\ is_acquiring) ~> ~is_acquiring
  /\ [][(Received("start") /\ ~is_acquiring) =>
          /\ camd_pipe' = <<"Succeeded">>
          /\ apc' = "set_exposure"]_vars

C5_Witness ==
  /\ stopped
  /\ apc = "return"
  /\ stream_frames
  /\ pushed = 0
  /\ processing_queue = <<>>

\* C6: a status report made after stop_sequence answered Succeeded, while
\* the acquisition thread is alive, shows Aborting.
C6_AbortingUntilExit ==
  (command = "status" /\ cpc = "cooler" /\ stopped /\ is_acquiring)
    => camd_pipe = <<"Aborting">>

\* C7: when the control loop is done with a command, exactly one response
\* has been sent for it, and none when no command was received.
C7_ExactlyOneResponse ==
  cpc \in {"cooler", "close"} =>
    IF command = "none" THEN camd_pipe = <<>> ELSE Len(camd_pipe) = 1

\* C8: a gain, offset or stream command received while the acquisition
\* thread is alive is answered CameraNotIdle, makes no driver call and
\* leaves the gain, the offset and the streaming flag as they were.
C8_SettingsWhileAcquiring ==
  [][(Received("gain") \/ Received("offset") \/ Received("stream"))
       /\ is_acquiring =>
         /\ camd_pipe' = <<"CameraNotIdle">>
         /\ calls' = <<>>
         /\ driver_lock' = driver_lock
         /\ UNCHANGED <<gain, offset, stream_frames>>]_vars

C8_Witness ==
  /\ command = "gain"
  /\ camd_pipe = <<"CameraNotIdle">>
  /\ is_acquiring
  /\ gain # args.gain
  /\ calls = <<>>

\* C9 as stated: the exposure and (in range) temperature commands are
\* answered Succeeded and store their argument in every state.
C9_AlwaysAccepted ==
  [][/\ Received("exposure") =>
          /\ camd_pipe' = <<"Succeeded">>
          /\ exposure_time' = args'.exposure
     /\ (Received("temperature")
         /\ \A t \in args'.temperature :
               TemperatureMin <= t /\ t <= TemperatureMax) =>
          /\ camd_pipe' = <<"Succeeded">>
          /\ cooler_setpoint' = args'.temperature]_vars

\* C9, amended: the temperature command with a setpoint in range (or none)
\* is answered Succeeded and stores it in every state; the exposure command
\* is answered Succeeded and stores its argument when no acquisition thread
\* is alive, and is answered CameraNotIdle, the exposure time left as it
\* was, while one is.
C9_AcceptedWhenIdle ==
  [][/\ Received("exposure") =>
          IF is_acquiring
            THEN /\ camd_pipe' = <<"CameraNotIdle">>
                 /\ UNCHANGED exposure_time
            ELSE /\ camd_pipe' = <<"Succeeded">>
                 /\ exposure_time' = args'.exposure
     /\ (Received("temperature")
         /\ \A t \in args'.temperature :
               TemperatureMin <= t /\ t <= TemperatureMax) =>
          /\ camd_pipe' = <<"Succeeded">>
          /\ cooler_setpoint' = args'.temperature]_vars

C9_Witness ==
  /\ command = "exposure"
  /\ camd_pipe = <<"CameraNotIdle">>
  /\ is_acquiring
  /\ exposure_time # args.exposure

\* C10: the device handle is never closed, nor the lock taken to close it,
\* while the acquisition thread is alive; when shutdown found a thread
\* object, the cancel call came first, the stop flag is set before the
\* join, the join ends only on a thread that is not alive, and the close
\* call is the last one.
C10_CloseAfterJoin ==
  /\ [](cpc \in {"sd_close", "sd_closing", "done"} =>
          /\ ~is_acquiring
          /\ apc # "none" =>
               Head(calls) = "CancelQHYCCDExposingAndReadout")
  /\ [](driver = "None" =>
          /\ ~is_acquiring
          /\ calls[Len(calls)] = "CloseQHYCCD")
  /\ [][/\ (cpc = "sd_flag" /\ cpc' # cpc) =>
             stop_acquisition' /\ cpc' = "sd_join"
        /\ (cpc = "sd_join" /\ cpc' # cpc) =>
             ~is_acquiring /\ cpc' = "sd_close"]_vars

C10_Witness ==
  /\ driver = "None"
  /\ apc = "dead"
  /\ calls = <<"CancelQHYCCDExposingAndReadout", "CloseQHYCCD">>
  /\ Len(processing_queue) > 0

\* The contents the finally block writes to the counter file (lines 338-342).
SavedCounter ==
  Some([exposure_count |-> exposure_count,
        exposure_reference |-> exposure_count_reference])

\* C11: when the acquisition thread is past the write of its finally block,
\* and when it has ended, the counter file holds the current exposure count
\* and reference, whatever way the thread left its loop.
C11_CounterSaved ==
  apc \in {"clear", "return", "dead"} => counter_file = SavedCounter

C11_Witness ==
  /\ apc = "return"
  /\ processing_stop_signal
  /\ pushed > 0
  /\ exposure_count > 0
  /\ counter_file = SavedCounter

\* A thread step puts a frame record on the queue.
Put == apc = "put" /\ apc' = "count_load"

\* The record that step puts.
LastRecord == processing_queue'[Len(processing_queue')]

\* The counter file is a JSON object with both keys.
FileWhole ==
  /\ counter_file # None
  /\ \A d \in counter_file :
       {"exposure_count", "exposure_reference"} \subseteq DOMAIN d

\* The object in the counter file.
Stored == CHOOSE d \in counter_file : TRUE

\* C12 as stated: the first frame after the process started with a counter
\* file holding count c and reference r, or after a run wrote it, carries
\* count c + 1 and reference r.
C12_ResumeFromNext ==
  [][(Put /\ pushed = 0 /\ FileWhole) =>
        /\ LastRecord.exposure_count = Stored.exposure_count + 1
        /\ LastRecord.exposure_count_reference =
             Stored.exposure_reference]_vars

\* C12, amended: that frame carries count c, the stored count itself, and
\* reference r, and the session's count after it is c + 1; until a frame is
\* put the session's counters are those of the file.
C12_ResumeFromStored ==
  /\ [][(Put /\ pushed = 0 /\ FileWhole) =>
          /\ LastRecord.exposure_count = Stored.exposure_count
          /\ LastRecord.exposure_count_reference = Stored.exposure_reference
          /\ exposure_count' = Stored.exposure_count + 1
          /\ UNCHANGED exposure_count_reference]_vars
  /\ []((FileWhole /\ pushed = 0) =>
          /\ exposure_count = Stored.exposure_count
          /\ exposure_count_reference = Stored.exposure_reference)

C12_Witness ==
  /\ apc = "count_load"
  /\ pushed = 1
  /\ counter_file = Some([exposure_count |-> MaxStored,
                          exposure_reference |-> "2024-01-01"])
  /\ processing_queue =
       <<[exposure_count |-> MaxStored,
          exposure_count_reference |-> "2024-01-01"]>>
  /\ exposure_count = MaxStored + 1

\* C13: construction does not raise whatever the counter file; while the
\* file is missing, not JSON or lacks a key, the session counts from 0 with
\* the fresh reference; and the first thread to end leaves a file with both
\* keys.
C13_FreshStart ==
  /\ cpc # "crashed"
  /\ ~FileWhole =>
       /\ exposure_count = pushed
       /\ exposure_count_reference = Now
       /\ apc \notin {"clear", "return", "dead"}
  /\ apc \in {"clear", "return", "dead"} =>
       /\ FileWhole
       /\ counter_file = SavedCounter

C13_Witness ==
  /\ apc = "dead"
  /\ counter_file = Some([exposure_count |-> 1, exposure_reference |-> Now])
  /\ exposure_count = 1
  /\ Len(processing_queue) = 1

\* The mode the cooler rules give for a setpoint, a temperature (both in
\* tenths of a degree), a PWM value and a UVLO status.
RuleMode(setpoint, temperature, pwm, uvlo) ==
  IF uvlo \in {2, 3, 9} THEN "UVLOError"
  ELSE IF setpoint = None THEN (IF pwm > 0 THEN "Warming" ELSE "Warm")
  ELSE LET sp == CHOOSE t \in setpoint : TRUE
           delta == IF temperature >= sp THEN temperature - sp
                    ELSE sp - temperature
       IN  CASE delta > 50 /\ temperature > sp -> "Cooling"
             [] delta > 50 /\ temperature < sp -> "Warming"
             [] 5 <= delta /\ delta <= 50 -> "Locking"
             [] delta < 5 -> "Locked"

\* C14: the mode a cooler poll leaves is the one the rules give for the
\* setpoint in force and the temperature, PWM and UVLO status the poll read,
\* whatever the mode was before.
C14_ModeIsFunction ==
  [][(cpc = "cooler_locked" /\ cpc' = "poll") =>
        cooler_mode' = RuleMode(cooler_setpoint, cooler_temperature',
                                cooler_pwm', cooler_uvlo')]_vars

C14_Witness ==
  /\ cpc = "poll"
  /\ cooler_setpoint = Some(-100)
  /\ cooler_temperature = -50
  /\ cooler_pwm = 128
  /\ cooler_uvlo = 1
  /\ cooler_mode = "Locking"

\* ------------------------------------------------- claims on initialize
\* The driver call `name` has been made.
Called(name) == \E i \in 1..Len(calls) : calls[i] = name

\* The number of times the driver call `name` has been made.
Times(name) == Cardinality({i \in 1..Len(calls) : calls[i] = name})

\* The calls initialize makes on an opened device.
SetupCalls == {AfterOpen[i] : i \in 1..Len(AfterOpen)}

\* The devices have been enumerated and none had the configured id.
NoMatch == Called("ScanQHYCCD") /\ ~Called("GetQHYCCDId:match")

\* C15: when the enumeration finds no device with the configured id,
\* initialize makes no open call and no call of the setup that follows it
\* (and so has nothing to close), stores no driver or handle in the session,
\* and what the process sends for it is CameraNotFound.
C15_CameraNotFound ==
  NoMatch =>
    /\ ~Called("OpenQHYCCD") /\ ~Called("CloseQHYCCD")
    /\ \A i \in 1..Len(calls) : calls[i] \notin SetupCalls
    /\ driver = "None"
    /\ cpc \in {"init_notfound", "send_notfound", "returned"}
    /\ cpc = "returned" =>
         /\ camd_pipe = <<"CameraNotFound">>
         /\ calls[Len(calls)] = "ReleaseQHYCCDResource"

C15_Witness ==
  /\ NoMatch
  /\ Called("GetQHYCCDId:other")
  /\ cpc = "returned"
  /\ camd_pipe = <<"CameraNotFound">>

\* initialize has been left and its result sent.
InitSent == cpc \in {"started", "returned"}

Faulted == cpc = "close" /\ command # "shutdown"

ControlCall ==
  \/ calls' # calls /\ calls' # <<>>
  \/ cpc = "cooler_locked" /\ cpc' = "poll"

\* A step in which the acquisition thread calls the driver.
ThreadCall == apc \in LockedSteps /\ apc' # apc

BareCalls ==
  {"SetQHYCCDParam(GAIN)", "SetQHYCCDParam(OFFSET)",
   "GetQHYCCDParam(UVLO_STATUS)", "QHYCCDResetFlashULVOError"}

C19_OneThread ==
  [][/\ (Received("start") /\ camd_pipe' = <<"Succeeded">>) =>
          apc \in {"none", "dead"} /\ apc' = "set_exposure"
     /\ (apc' = "set_exposure" /\ apc' # apc) =>
          Received("start") /\ apc \in {"none", "dead"}
     /\ (Received("start") /\ apc \notin {"none", "dead"}) =>
          apc' = apc]_vars

C19_Witness ==
  /\ apc = "set_exposure"
  /\ camd_pipe = <<"Succeeded">>
  /\ command = "start"
  /\ counter_file =
       Some([exposure_count |-> 0, exposure_reference |-> Now])

\* C20: shutdown never waits in join holding the driver lock, and once
\* called it reaches its end; the lock, whoever took it (a cooler poll, the
\* stream handler, shutdown, the acquisition thread in its loop or in its
\* cleanup), is released again.
C20_ShutdownTerminates ==
  /\ [](cpc \in {"sd_flag", "sd_join"} => driver_lock # "ctl")
  /\ (cpc = "shutdown") ~> (cpc = "done")
  /\ (driver_lock # "none") ~> (driver_lock = "none")

C20_Witness ==
  /\ cpc = "sd_join"
  /\ driver_lock = "acq"
  /\ apc = "end_live"

\* ----------------------------------------------- claims on the sequence
\* C21: the thread comes to the put only from the check that follows the
\* download and only when neither stop flag is set there; when one is set at
\* that check, or during a live-frame poll, the thread leaves its loop, and
\* on the way out nothing is put on the queue and neither the exposure
\* counter nor the frame count of the sequence is incremented.
C21_NoPushAfterStop ==
  [][/\ (apc' = "put" /\ apc # "put") =>
          apc = "stop_test" /\ ~stop_observed
     /\ (apc = "stop_test" /\ apc' # apc /\ stop_observed) =>
          apc' = "finally"
     /\ (apc = "live_test" /\ apc' # apc /\ stop_observed) =>
          apc' = "stop_test"
     /\ (apc \in {"live_test", "stop_test"} \/ Leaving) =>
          /\ processing_queue' = processing_queue
          /\ exposure_count' = exposure_count
          /\ sequence_frame_count' <= sequence_frame_count]_vars

C21_Witness ==
  /\ apc = "stop_test"
  /\ status = QHYStatus_Success
  /\ stop_observed
  /\ pushed = 0

\* C22: each attempt to get a live frame is made with the lock held and
\* ends with its release; the lock is not held by the thread while it tests
\* the stop flags, nor when it comes back for the next attempt, for which it
\* has to take the lock again.
C22_OneAttemptPerLock ==
  /\ [](apc \in {"live_test", "stop_test", "loop"} => driver_lock # "acq")
  /\ [][/\ (apc = "live_frame" /\ apc' = "live_test") =>
             driver_lock = "acq" /\ driver_lock' = "none"
        /\ (apc = "live_test" /\ apc' = "live_frame") =>
             driver_lock # "acq" /\ driver_lock' # "acq"]_vars

C22_Witness ==
  /\ apc = "live_frame"
  /\ status = CInt(QHYStatus_Error)
  /\ stream_frames
  /\ cpc = "cooler_locked"
  /\ driver_lock = "ctl"

\* ------------------------------------------------- claims on the cooler
\* C23: the driver write of a cooler poll is the one the rules give for the
\* setpoint in force and the temperature, PWM, UVLO status and closed-loop
\* target the poll read (temperatures in tenths of a degree): none on a UVLO
\* status of 2, 3 or 9, or with no setpoint and the PWM at 0; the PWM one
\* step down, not below 0, with no setpoint and the PWM above 0 or more than
\* 5 degrees below the setpoint; one step up, not above 255, more than 5
\* degrees above it; within 5 degrees, the setpoint as closed-loop target if
\* and only if the driver's target is more than 0.1 degrees from it.  A PWM
\* written is in 0..255 and at most one step from the PWM read.
C23_WriteIsFunction ==
  [][(cpc = "cooler_locked" /\ cpc' = "poll") =>
       LET t == cooler_temperature'
           p == cooler_pwm'
           w == cooler_write'
           down == IF p - ConfigPwmStep < 0 THEN 0 ELSE p - ConfigPwmStep
           up == IF p + ConfigPwmStep > 255 THEN 255 ELSE p + ConfigPwmStep
       IN  /\ CASE cooler_uvlo' \in {2, 3, 9} -> w = {}
                [] cooler_uvlo' \notin {2, 3, 9} /\ cooler_setpoint = {} ->
                     IF p = 0 THEN w = {}
                     ELSE w = {[control |-> "MANUALPWM", value |-> down]}
                [] OTHER ->
                     \A sp \in cooler_setpoint :
                       CASE t - sp > 50 ->
                              w = {[control |-> "MANUALPWM", value |-> up]}
                         [] sp - t > 50 ->
                              w = {[control |-> "MANUALPWM", value |-> down]}
                         [] OTHER ->
                              IF cooler_target' - sp > 1
                                 \/ sp - cooler_target' > 1
                                THEN w = {[control |-> "COOLER",
                                           value |-> sp]}
                                ELSE w = {}
           /\ \A x \in w :
                x.control = "MANUALPWM" =>
                  /\ x.value \in 0..255
                  /\ x.value - p \in (0 - ConfigPwmStep)..ConfigPwmStep]_vars

C23_Witness ==
  /\ cpc = "poll"
  /\ cooler_pwm = 250
  /\ cooler_mode = "Cooling"
  /\ cooler_write = {[control |-> "MANUALPWM", value |-> 255]}

\* ---------------------------------------- claims on what initialize stores
\* C24 as stated: when initialize has returned Failed or CameraNotFound, no
\* driver or handle and no session fact is stored.
C24_NothingStored ==
  (InitSent /\ camd_pipe # <<"Succeeded">>) =>
    driver = "None" /\ session_facts = {}

\* C24: the driver and the handle are stored only by an initialize that
\* returns Succeeded, which has then stored every session fact.  The facts
\* are stored one by one as the calls that read them succeed: after Failed
\* or CameraNotFound the session holds the facts of the calls that had
\* succeeded by then (the SDK version whenever the enumeration was reached),
\* and never the image geometry, which the last call reads.
C24_StoredAsRead ==
  InitSent =>
    LET last == CHOOSE i \in 0..Len(calls) :
                  /\ i > 0 => calls[i] \notin {"CloseQHYCCD",
                                               "ReleaseQHYCCDResource"}
                  /\ \A j \in (i + 1)..Len(calls) :
                       calls[j] \in {"CloseQHYCCD", "ReleaseQHYCCDResource"}
        Read(name) == \E i \in 1..Len(calls) :
                        /\ calls[i] = name
                        /\ i < last \/ status = QHYStatus_Success
    IN  /\ "sdk_version" \in session_facts <=> Read("GetQHYCCDSDKVersion")
        /\ "firmware_version" \in session_facts <=> Read("GetQHYCCDFWVersion")
        /\ "mode_name" \in session_facts <=> Read("GetQHYCCDReadModeName")
        /\ "readout" \in session_facts <=> Read("GetQHYCCDChipInfo")
        /\ "geometry" \in session_facts <=> Read("GetQHYCCDEffectiveArea")
        /\ camd_pipe = <<"Succeeded">> =>
             driver = "loaded" /\ session_facts = Facts
        /\ camd_pipe # <<"Succeeded">> =>
             driver = "None" /\ "geometry" \notin session_facts
        /\ camd_pipe = <<"CameraNotFound">> =>
             session_facts = {"sdk_version"}

C24_Witness ==
  /\ cpc = "returned"
  /\ camd_pipe = <<"Failed">>
  /\ session_facts = {"sdk_version", "firmware_version", "mode_name"}
  /\ driver = "None"

\* ----------------------------------------------- claims on the exposures
\* C25 as stated: in single-shot mode, when the call that triggers the
\* exposure returns a status other than success, the thread goes from the
\* trigger to its finally block, with no download and nothing put on the
\* queue.
C25_TriggerFailureAborts ==
  [][(apc = "trigger" /\ apc' # apc /\ status' # QHYStatus_Success) =>
        /\ apc' = "finally"
        /\ processing_queue' = processing_queue]_vars

\* C26 as stated: while the thread of a sequence started with a frame limit
\* above 0 is alive, the number of records it has put on the queue is at
\* most the limit.
C26_AtMostLimit ==
  (is_acquiring /\ sequence_frame_limit > 0) =>
    pushed <= sequence_frame_limit

\* C27: the control thread makes no driver call while the acquisition
\* thread is inside one (holds the lock for it), and the calls it makes
\* without the lock are made while no acquisition thread is alive; the
\* acquisition thread makes its calls holding the lock, while the control
\* thread is inside none of its locked calls.
C27_NoOverlap ==
  /\ [][/\ ControlCall =>
             /\ driver_lock # "acq"
             /\ driver_lock = "none" => ~is_acquiring
        /\ ThreadCall =>
             /\ driver_lock = "acq"
             /\ cpc \notin {"initialize", "first_cooler_locked",
                            "cooler_locked", "stream_locked", "sd_cancel",
                            "sd_closing"}]_vars
  /\ [](cpc \in {"reset_uvlo", "initialize", "stream_locked"} =>
          ~is_acquiring)

C27_Witness ==
  /\ driver_lock = "acq"
  /\ apc = "single_frame"
  /\ command = "offset"
  /\ camd_pipe = <<"CameraNotIdle">>

C29_LiveEnded ==
  /\ [](live => /\ is_acquiring /\ stream_frames
                /\ apc \notin {"save", "clear", "return"})
  /\ [][/\ is_acquiring => stream_frames' = stream_frames
        /\ (live /\ ~live') => apc = "end_live" /\ driver_lock = "acq"
        /\ (Received("start") /\ camd_pipe' = <<"Succeeded">>) => ~live
        /\ (Received("status") /\ ~is_acquiring) => ~live]_vars

C29_Witness ==
  /\ apc = "save"
  /\ stream_frames
  /\ pushed = 1
  /\ interrupted
  /\ ~live

\* ------------------------------------------------ claims on the settings
\* C30 as stated: a gain or offset command that is answered Failed leaves
\* the gain and the offset recorded in the session as they were.
C30_FailedKeepsSetting ==
  [][((Received("gain") \/ Received("offset"))
        /\ camd_pipe' = <<"Failed">>) =>
          UNCHANGED <<gain, offset>>]_vars

====
